---- MODULE Spec2Model ----
(***************************************************************************)
(* LRUCache (src/LRUCache.py): a hashmap key -> node plus a doubly linked  *)
(* list of nodes between two sentinels, head = most recently used.         *)
(* The heap of Node objects is modelled explicitly: `nodes` maps a node    *)
(* reference to the node's fields, `cache` maps a key to a node reference. *)
(***************************************************************************)
EXTENDS Integers, Sequences, FiniteSets, TLC

\* ---------------------------------------------------------------- bounds
MaxKey == 3
MaxValue == 1
MaxCapacity == 2
NThreads == 2
MaxAsset == 3
MaxLiveAsset == 1

\* ------------------------------------------------------- program constants
\* Python's None, as the value of an unset reference or field.
None == 0
\* self.head and self.tail: the two sentinel nodes, never reassigned.
head == 1
tail == 2
\* what get returns for a key that is not in the map
NotFound == -1

Keys == 1..MaxKey
\* put takes integer values; -1 is an integer a caller may store
Values == {NotFound} \cup (1..MaxValue)
\* the constructor takes any integer and checks nothing
Capacities == (-1)..MaxCapacity

VARIABLES
    capacity,   \* self.capacity
    cache,      \* self.cache: key -> node reference
    nodes,      \* the heap: node reference -> [key, value, prev, next]
    lastOp,     \* observation of the last call: arguments, result, evictions
    touchSeq,   \* history: the mapped keys in the order of their last touch
                \* (successful get, or put), oldest first
    shadow,     \* history: key -> value of its last put, for keys not evicted since
    threads     \* the threads calling into one cache without a lock: for each
                \* thread its position and locals (no threads in Spec)

\* AssetManager (src/ResourceManagement.py)
VARIABLES
    assets,         \* AssetManager._assets: asset id -> Asset reference
    cache_strategy, \* AssetManager._cache_strategy: whether one is set, and the
                    \* LRUCachingStrategy's capacity and OrderedDict (oldest first)
    objects,        \* the Asset objects: reference -> [id, loaded]
    lastCall,       \* observation of the manager's last call
    manager         \* the class and its locks: AssetManager._instance, who
                    \* holds _instance_lock and self._lock, and how many
                    \* instances were created and how often _init ran

amVars == <<assets, cache_strategy, objects, lastCall, manager>>

vars == <<capacity, cache, nodes, lastOp, touchSeq, shadow, threads,
          assets, cache_strategy, objects, lastCall, manager>>

\* ------------------------------------------------------------ the heap
\* class Node: key, value, prev = None, next = None
Node_value_is_key(key, value) ==
    [key |-> key, value |-> key, prev |-> None, next |-> None]

Node(key, value) ==
    [key |-> key, value |-> value, prev |-> None, next |-> None]

\* A heap under construction inside one call: mem is the memory, exc is TRUE
\* once an attribute of None was assigned (AttributeError) or a missing key
\* was deleted (KeyError); nothing after the raise is executed.
Heap(mem) == [mem |-> mem, exc |-> FALSE]

GetPrev(h, n) == IF n \in DOMAIN h.mem THEN h.mem[n].prev ELSE None
GetNext(h, n) == IF n \in DOMAIN h.mem THEN h.mem[n].next ELSE None

\* target.prev = v
SetPrev(h, n, v) ==
    IF h.exc THEN h
    ELSE IF n \notin DOMAIN h.mem THEN [h EXCEPT !.exc = TRUE]
    ELSE [h EXCEPT !.mem[n].prev = v]

\* target.next = v
SetNext(h, n, v) ==
    IF h.exc THEN h
    ELSE IF n \notin DOMAIN h.mem THEN [h EXCEPT !.exc = TRUE]
    ELSE [h EXCEPT !.mem[n].next = v]

\* node.value = value
SetValue_skip(h, n, v) == h

SetValue(h, n, v) ==
    IF h.exc THEN h
    ELSE IF n \notin DOMAIN h.mem THEN [h EXCEPT !.exc = TRUE]
    ELSE [h EXCEPT !.mem[n].value = v]

\* node = Node(key, value): a fresh reference, one that no live object has.
\* Which fresh reference the allocator hands out is not observable, so the
\* model takes the one numbered after the key when it is free and the
\* smallest free one above those otherwise.
NewRef(used, key) ==
    IF tail + key \notin used THEN tail + key
    ELSE CHOOSE n \in (tail + MaxKey + 1)..(tail + MaxKey + 1 + Cardinality(used)) :
            /\ n \notin used
            /\ \A m \in (tail + MaxKey + 1)..(n - 1) : m \in used

Alloc(h, n, key, value) ==
    [h EXCEPT !.mem = [m \in DOMAIN h.mem \cup {n} |->
                          IF m = n THEN Node(key, value) ELSE h.mem[m]]]

\* ----------------------------------------------------- linked-list helpers
remove_node_skip_unlinked(h, node) ==
    IF GetPrev(h, node) = None \/ GetNext(h, node) = None THEN h
    ELSE SetPrev(SetNext(h, GetPrev(h, node), GetNext(h, node)),
                 GetNext(h, node), GetPrev(h, node))

remove_node(h, node) ==
    LET h1 == SetNext(h, GetPrev(h, node), GetNext(h, node))
    IN  SetPrev(h1, GetNext(h1, node), GetPrev(h1, node))

add_to_head_no_back_link(h, node) ==
    LET h1 == SetPrev(h, node, head)
        h2 == SetNext(h1, node, GetNext(h1, head))
    IN  SetNext(h2, head, node)

add_to_head(h, node) ==
    LET h1 == SetPrev(h, node, head)
        h2 == SetNext(h1, node, GetNext(h1, head))
        h3 == SetPrev(h2, GetNext(h2, head), node)
    IN  SetNext(h3, head, node)

move_to_head_skip(h, node) == h

move_to_head_unlink(h, node) == remove_node(h, node)

move_to_head(h, node) == add_to_head(remove_node(h, node), node)

\* returns the unlinked node together with the heap
remove_tail_takes_sentinel(h) ==
    [node |-> tail, h |-> remove_node(h, tail)]

remove_tail_takes_second(h) ==
    LET node == GetPrev(h, GetPrev(h, tail))
    IN  [node |-> node, h |-> remove_node(h, node)]

remove_tail_keep_linked(h) ==
    [node |-> GetPrev(h, tail), h |-> h]

remove_tail(h) ==
    LET node == GetPrev(h, tail)
    IN  [node |-> node, h |-> remove_node(h, node)]

\* if len(self.cache) > self.capacity
over_capacity_off_by_one(n, cap) == n > cap + 1

over_capacity_at_capacity(n, cap) == n >= cap

over_capacity_never(n, cap) == FALSE

over_capacity(n, cap) == n > cap

\* --------------------------------------------------- garbage and history
Range(f) == {f[x] : x \in DOMAIN f}

RECURSIVE Reach(_, _)
Reach(mem, S) ==
    LET T == (S \cup {mem[n].prev : n \in S} \cup {mem[n].next : n \in S})
                 \cap DOMAIN mem
    IN  IF T = S THEN S ELSE Reach(mem, T)

\* Node objects no longer referenced from the cache object are freed.
Collect(mem, c) ==
    LET live == Reach(mem, ({head, tail} \cup Range(c)) \cap DOMAIN mem)
    IN  [n \in live |-> mem[n]]

Without(seq, k) == SelectSeq(seq, LAMBDA x : x # k)
Touch(seq, k) == Append(Without(seq, k), k)
\* the keys of S, least recently touched first
RecencyOrder(seq, S) == SelectSeq(seq, LAMBDA x : x \in S)

DropKeys(f, S) == [k \in DOMAIN f \ S |-> f[k]]
SeqSet(s) == {s[i] : i \in 1..Len(s)}

\* what the next call remembers of the call before it: the call itself when
\* it was a successful get of the key that was least recently used, and
\* nothing otherwise
NoCall == [op |-> "none", key |-> None, hit |-> FALSE, order |-> <<>>]

Summary(o) ==
    IF o.op = "get" /\ o.hit /\ o.order # <<>> /\ o.order[1] = o.key
    THEN [op |-> o.op, key |-> o.key, hit |-> o.hit, order |-> o.order]
    ELSE NoCall

\* ------------------------------------------------ AssetManager._init
NoStrategy == [configured |-> FALSE, capacity |-> 0, od |-> <<>>]

NoManagerCall ==
    [op |-> "new", id |-> None, hit |-> FALSE, exc |-> "none",
     returned |-> None, loaded |-> FALSE, evicted |-> <<>>, unloads |-> <<>>,
     held0 |-> {}, prevHit |-> None, early |-> FALSE]

\* the class before any construction: _instance = None, both locks free
NotConstructed ==
    [instance |-> None, creates |-> 0, inits |-> 0,
     lock |-> None, instance_lock |-> None]

\* the state one construction leaves
_init ==
    /\ assets = [i \in {} |-> None]
    /\ cache_strategy = NoStrategy
    /\ objects = [a \in {} |-> None]
    /\ lastCall = NoManagerCall
    /\ manager = [NotConstructed EXCEPT !.instance = 1, !.creates = 1, !.inits = 1]

\* -------------------------------------------------------------- __init__
Init ==
    /\ capacity \in Capacities
    /\ cache = [k \in {} |-> None]
    /\ nodes = [n \in {head, tail} |->
                  IF n = head
                  THEN [key |-> None, value |-> None, prev |-> None, next |-> tail]
                  ELSE [key |-> None, value |-> None, prev |-> head, next |-> None]]
    /\ lastOp = [op |-> "new", key |-> None, value |-> None, result |-> None,
                 hit |-> FALSE, size0 |-> 0, order |-> <<>>, evicted |-> <<>>,
                 raised |-> FALSE,
                 before |-> NoCall]
    /\ touchSeq = <<>>
    /\ shadow = [k \in {} |-> None]
    /\ threads = <<>>
    /\ _init

\* ------------------------------------------------------------------- get
\* the value a call get(key) returns in the heap mem with the map c
get_result_always_missing(c, mem, key) == NotFound

get_result_none_on_miss(c, mem, key) ==
    IF key \in DOMAIN c THEN mem[c[key]].value ELSE None

get_result(c, mem, key) ==
    IF key \in DOMAIN c THEN mem[c[key]].value ELSE NotFound

get(key) ==
    LET hit == key \in DOMAIN cache
        h   == IF hit THEN move_to_head(Heap(nodes), cache[key]) ELSE Heap(nodes)
    IN  /\ nodes' = Collect(h.mem, cache)
        /\ lastOp' = [op |-> "get", key |-> key, value |-> None,
                      result |-> IF h.exc THEN None ELSE get_result(cache, h.mem, key),
                      hit |-> hit, size0 |-> Cardinality(DOMAIN cache),
                      order |-> RecencyOrder(touchSeq, DOMAIN cache),
                      evicted |-> <<>>, raised |-> h.exc, before |-> Summary(lastOp)]
        /\ touchSeq' = IF hit THEN Touch(touchSeq, key) ELSE touchSeq
        /\ UNCHANGED <<capacity, cache, shadow, threads>>
        /\ UNCHANGED amVars

\* ------------------------------------------------------------------- put
put(key, value) ==
    LET hit == key \in DOMAIN cache
        \* key present: update the value, move to head
        hUpd == move_to_head(SetValue(Heap(nodes), cache[key], value), cache[key])
        \* key absent: new node, map it, link it at the head
        ref  == NewRef(DOMAIN nodes, key)
        c1   == [k \in DOMAIN cache \cup {key} |-> IF k = key THEN ref ELSE cache[k]]
        hAdd == add_to_head(Alloc(Heap(nodes), ref, key, value), ref)
        over == ~hAdd.exc /\ over_capacity(Cardinality(DOMAIN c1), capacity)
        rt   == remove_tail(hAdd)
        rkey == IF rt.node \in DOMAIN rt.h.mem THEN rt.h.mem[rt.node].key ELSE None
        \* del self.cache[removed_node.key]: KeyError when the key is not mapped
        delOk == ~rt.h.exc /\ rkey \in DOMAIN c1
        hNew == IF ~over THEN hAdd
                ELSE IF delOk THEN rt.h ELSE [rt.h EXCEPT !.exc = TRUE]
        cNew == IF over /\ delOk THEN DropKeys(c1, {rkey}) ELSE c1
        ev   == IF ~hit /\ over /\ delOk THEN <<rkey>> ELSE <<>>
        h    == IF hit THEN hUpd ELSE hNew
        c    == IF hit THEN cache ELSE cNew
    IN  /\ cache' = c
        /\ nodes' = Collect(h.mem, c)
        /\ lastOp' = [op |-> "put", key |-> key, value |-> value, result |-> None,
                      hit |-> hit, size0 |-> Cardinality(DOMAIN cache),
                      order |-> RecencyOrder(touchSeq, DOMAIN cache),
                      evicted |-> ev, raised |-> h.exc, before |-> Summary(lastOp)]
        /\ touchSeq' = RecencyOrder(Touch(touchSeq, key), DOMAIN c)
        /\ shadow' = DropKeys([k \in DOMAIN shadow \cup {key} |->
                                 IF k = key THEN value ELSE shadow[k]], SeqSet(ev))
        /\ UNCHANGED <<capacity, threads>>
        /\ UNCHANGED amVars

Next ==
    \/ \E key \in Keys : get(key)
    \/ \E key \in Keys, value \in Values : put(key, value)

Spec == Init /\ [][Next]_vars

\* ---------------------------------------------- get and put from threads
\* self.lock and the two `with self.lock:` lines are commented out, so calls
\* from several threads interleave.  Each statement of get, put and the
\* list helpers is one step here; the interpreter may switch threads even
\* inside a statement, so these are some of the interleavings it can produce.
Threads == 1..NThreads

\* a thread that is not inside a call: no locals
NoLocals(pc) ==
    [pc |-> pc, key |-> None, value |-> None, node |-> None, cur |-> None,
     ret |-> "none", result |-> None]

InitConc ==
    /\ capacity \in 1..MaxCapacity
    /\ cache = [k \in {} |-> None]
    /\ nodes = [n \in {head, tail} |->
                  IF n = head
                  THEN [key |-> None, value |-> None, prev |-> None, next |-> tail]
                  ELSE [key |-> None, value |-> None, prev |-> head, next |-> None]]
    /\ lastOp = [op |-> "new", key |-> None, value |-> None, result |-> None,
                 hit |-> FALSE, size0 |-> 0, order |-> <<>>, evicted |-> <<>>,
                 raised |-> FALSE,
                 before |-> NoCall]
    /\ touchSeq = <<>>
    /\ shadow = [k \in {} |-> None]
    /\ threads = [t \in Threads |-> NoLocals("idle")]
    /\ _init

\* objects referenced from the cache object or from a running thread's locals
CollectConc(mem, c, th) ==
    LET roots == {head, tail} \cup Range(c)
                   \cup {th[t].node : t \in DOMAIN th} \cup {th[t].cur : t \in DOMAIN th}
        live  == Reach(mem, roots \cap DOMAIN mem)
    IN  [n \in live |-> mem[n]]

\* thread t has executed a statement that left the heap h and the map c and
\* continues as the record th; an exception ends the thread
Step(t, h, c, th) ==
    LET th1 == [threads EXCEPT ![t] = IF h.exc THEN NoLocals("raised") ELSE th]
    IN  /\ threads' = th1
        /\ cache' = c
        /\ nodes' = CollectConc(h.mem, c, th1)
        /\ UNCHANGED <<capacity, lastOp, touchSeq, shadow>>
        /\ UNCHANGED amVars

Raise(h) == [h EXCEPT !.exc = TRUE]

\* a thread enters get(key)
call_get(t, key) ==
    /\ threads[t].pc = "idle"
    /\ Step(t, Heap(nodes), cache,
            [NoLocals("get_test") EXCEPT !.key = key])

\* a thread enters put(key, value)
call_put(t, key, value) ==
    /\ threads[t].pc = "idle"
    /\ Step(t, Heap(nodes), cache,
            [NoLocals("put_test") EXCEPT !.key = key, !.value = value])

\* get: if key in self.cache ... else return -1
get_test(t) ==
    /\ threads[t].pc = "get_test"
    /\ Step(t, Heap(nodes), cache,
            IF threads[t].key \in DOMAIN cache
            THEN [threads[t] EXCEPT !.pc = "get_lookup"]
            ELSE [NoLocals("done") EXCEPT !.result = NotFound])

\* get: node = self.cache[key]; self.move_to_head(node)
get_lookup(t) ==
    /\ threads[t].pc = "get_lookup"
    /\ IF threads[t].key \in DOMAIN cache
       THEN Step(t, Heap(nodes), cache,
                 [threads[t] EXCEPT !.pc = "remove_node_1",
                                    !.node = cache[threads[t].key],
                                    !.cur = cache[threads[t].key],
                                    !.ret = "get_return"])
       ELSE Step(t, Raise(Heap(nodes)), cache, threads[t])

\* get: return node.value
get_return(t) ==
    /\ threads[t].pc = "get_return"
    /\ Step(t, Heap(nodes), cache,
            [NoLocals("done") EXCEPT !.result = nodes[threads[t].node].value])

\* put: if key in self.cache ... else ...
put_test(t) ==
    /\ threads[t].pc = "put_test"
    /\ Step(t, Heap(nodes), cache,
            [threads[t] EXCEPT !.pc = IF threads[t].key \in DOMAIN cache
                                      THEN "put_lookup" ELSE "put_new"])

\* put: node = self.cache[key]
put_lookup(t) ==
    /\ threads[t].pc = "put_lookup"
    /\ IF threads[t].key \in DOMAIN cache
       THEN Step(t, Heap(nodes), cache,
                 [threads[t] EXCEPT !.pc = "put_value",
                                    !.node = cache[threads[t].key]])
       ELSE Step(t, Raise(Heap(nodes)), cache, threads[t])

\* put: node.value = value; self.move_to_head(node)
put_value(t) ==
    /\ threads[t].pc = "put_value"
    /\ Step(t, SetValue(Heap(nodes), threads[t].node, threads[t].value), cache,
            [threads[t] EXCEPT !.pc = "remove_node_1", !.cur = threads[t].node,
                               !.ret = "done"])

\* put: node = Node(key, value)
put_new(t) ==
    /\ threads[t].pc = "put_new"
    /\ LET ref == NewRef(DOMAIN nodes, threads[t].key)
       IN  Step(t, Alloc(Heap(nodes), ref, threads[t].key, threads[t].value), cache,
                [threads[t] EXCEPT !.pc = "put_map", !.node = ref])

\* put: self.cache[key] = node; self.add_to_head(node)
put_map(t) ==
    /\ threads[t].pc = "put_map"
    /\ Step(t, Heap(nodes),
            [k \in DOMAIN cache \cup {threads[t].key} |->
                IF k = threads[t].key THEN threads[t].node ELSE cache[k]],
            [threads[t] EXCEPT !.pc = "add_to_head_1", !.cur = threads[t].node,
                               !.ret = "put_len"])

\* put: if len(self.cache) > self.capacity
put_len(t) ==
    /\ threads[t].pc = "put_len"
    /\ Step(t, Heap(nodes), cache,
            IF over_capacity(Cardinality(DOMAIN cache), capacity)
            THEN [threads[t] EXCEPT !.pc = "remove_tail_1"]
            ELSE NoLocals("done"))

\* remove_tail: node = self.tail.prev; self.remove_node(node)
remove_tail_1(t) ==
    /\ threads[t].pc = "remove_tail_1"
    /\ Step(t, Heap(nodes), cache,
            [threads[t] EXCEPT !.pc = "remove_node_1", !.node = nodes[tail].prev,
                               !.cur = nodes[tail].prev, !.ret = "put_del"])

\* put: del self.cache[removed_node.key]
put_del(t) ==
    /\ threads[t].pc = "put_del"
    /\ LET rkey == nodes[threads[t].node].key
       IN  IF rkey \in DOMAIN cache
           THEN Step(t, Heap(nodes), DropKeys(cache, {rkey}), NoLocals("done"))
           ELSE Step(t, Raise(Heap(nodes)), cache, threads[t])

\* remove_node: node.prev.next = node.next
remove_node_1(t) ==
    /\ threads[t].pc = "remove_node_1"
    /\ LET h == Heap(nodes)
           n == threads[t].cur
       IN  Step(t, SetNext(h, GetPrev(h, n), GetNext(h, n)), cache,
                [threads[t] EXCEPT !.pc = "remove_node_2"])

\* remove_node: node.next.prev = node.prev, then back to the caller:
\* move_to_head goes on with add_to_head, remove_tail returns to put
remove_node_2(t) ==
    /\ threads[t].pc = "remove_node_2"
    /\ LET h == Heap(nodes)
           n == threads[t].cur
       IN  Step(t, SetPrev(h, GetNext(h, n), GetPrev(h, n)), cache,
                IF threads[t].ret = "put_del"
                THEN [threads[t] EXCEPT !.pc = "put_del", !.cur = None]
                ELSE [threads[t] EXCEPT !.pc = "add_to_head_1"])

\* add_to_head: node.prev = self.head
add_to_head_1(t) ==
    /\ threads[t].pc = "add_to_head_1"
    /\ Step(t, SetPrev(Heap(nodes), threads[t].cur, head), cache,
            [threads[t] EXCEPT !.pc = "add_to_head_2"])

\* add_to_head: node.next = self.head.next
add_to_head_2(t) ==
    /\ threads[t].pc = "add_to_head_2"
    /\ LET h == Heap(nodes)
       IN  Step(t, SetNext(h, threads[t].cur, GetNext(h, head)), cache,
                [threads[t] EXCEPT !.pc = "add_to_head_3"])

\* add_to_head: self.head.next.prev = node
add_to_head_3(t) ==
    /\ threads[t].pc = "add_to_head_3"
    /\ LET h == Heap(nodes)
       IN  Step(t, SetPrev(h, GetNext(h, head), threads[t].cur), cache,
                [threads[t] EXCEPT !.pc = "add_to_head_4"])

\* add_to_head: self.head.next = node, then back to the caller
add_to_head_4(t) ==
    /\ threads[t].pc = "add_to_head_4"
    /\ Step(t, SetNext(Heap(nodes), head, threads[t].cur), cache,
            IF threads[t].ret = "done" THEN NoLocals("done")
            ELSE [threads[t] EXCEPT !.pc = threads[t].ret, !.cur = None])

NextConc ==
    \E t \in Threads :
        \/ \E key \in Keys : call_get(t, key)
        \/ \E key \in Keys, value \in Values : call_put(t, key, value)
        \/ get_test(t)
        \/ get_lookup(t)
        \/ get_return(t)
        \/ put_test(t)
        \/ put_lookup(t)
        \/ put_value(t)
        \/ put_new(t)
        \/ put_map(t)
        \/ put_len(t)
        \/ remove_tail_1(t)
        \/ put_del(t)
        \/ remove_node_1(t)
        \/ remove_node_2(t)
        \/ add_to_head_1(t)
        \/ add_to_head_2(t)
        \/ add_to_head_3(t)
        \/ add_to_head_4(t)

SpecConc == InitConc /\ [][NextConc]_vars

\* ------------------------------------------------------------- AssetManager
AssetIds == 1..MaxAsset
\* LRUCachingStrategy(capacity) takes any integer and checks nothing
StrategyCapacities == 0..MaxCapacity

\* class Asset: id and _loaded (path and size are only printed)
Asset(asset_id) == [id |-> asset_id, loaded |-> FALSE]

\* Asset.load
load_skip(objs, a) == objs

load(objs, a) ==
    IF ~objs[a].loaded THEN [objs EXCEPT ![a].loaded = TRUE] ELSE objs

\* Asset.unload
unload_skip(objs, a) == objs

unload(objs, a) ==
    IF objs[a].loaded THEN [objs EXCEPT ![a].loaded = FALSE] ELSE objs

\* asset = Asset(asset_id, path, size): a fresh reference, the one numbered
\* after the id when it is free and the smallest free one above otherwise
NewAsset(used, asset_id) ==
    IF asset_id \notin used THEN asset_id
    ELSE CHOOSE n \in (MaxAsset + 1)..(MaxAsset + 1 + Cardinality(used)) :
            /\ n \notin used
            /\ \A m \in (MaxAsset + 1)..(n - 1) : m \in used

\* the ids held by the OrderedDict od of <<id, asset>> pairs
OdIds(od) == {od[i][1] : i \in 1..Len(od)}
OdAssets(od) == {od[i][2] : i \in 1..Len(od)}

\* OrderedDict.move_to_end(id)
move_to_end(od, id) ==
    SelectSeq(od, LAMBDA e : e[1] # id) \o SelectSeq(od, LAMBDA e : e[1] = id)

\* The strategy at work inside one call: od is its OrderedDict, objs the
\* Asset objects, unloads the unload() calls made so far, evicted the ids
\* popped so far, exc the exception raised ("none" if none), mapped the ids
\* in the manager's map while the strategy runs.

\* LRUCachingStrategy.evict: popitem(last=False) raises KeyError when empty
evict(w) ==
    IF w.od = <<>> THEN [w EXCEPT !.exc = "KeyError"]
    ELSE LET e == Head(w.od)
         IN  [w EXCEPT !.od = Tail(w.od),
                       !.objs = unload(w.objs, e[2]),
                       !.unloads = Append(w.unloads,
                                      [asset |-> e[2], id |-> e[1], by |-> "evict",
                                       loaded |-> unload(w.objs, e[2])[e[2]].loaded,
                                       cached |-> OdIds(Tail(w.od)),
                                       mapped |-> w.mapped]),
                       !.evicted = Append(w.evicted, e[1])]

\* if len(self.cache) >= self.capacity
at_capacity_off_by_one(n, cap) == n > cap

at_capacity(n, cap) == n >= cap

\* the body of the method LRUCachingStrategy.cache(asset), which runs only
\* when it is reached through the class
strategy_cache(w, cap, a) ==
    LET id == w.objs[a].id
    IN  IF id \in OdIds(w.od)
        THEN [w EXCEPT !.od = move_to_end(w.od, id)]
        ELSE LET w1 == IF at_capacity(Len(w.od), cap) THEN evict(w) ELSE w
             IN  IF w1.exc # "none" THEN w1
                 ELSE [w1 EXCEPT !.od = Append(w1.od, <<id, a>>)]

\* self._cache_strategy.cache(asset), as get_asset writes it.  __init__ of
\* LRUCachingStrategy assigns the OrderedDict to the instance attribute
\* `cache`, which hides the method `cache` of the class on every instance:
\* the attribute looked up is the OrderedDict, calling it raises TypeError
\* ('OrderedDict' object is not callable) and the method body never runs.
call_cache(w, cap, a) == [w EXCEPT !.exc = "TypeError"]

\* Asset objects no longer referenced by the manager or the strategy
CollectAssets(objs, as, od) ==
    [a \in (Range(as) \cup OdAssets(od)) \cap DOMAIN objs |-> objs[a]]

\* AssetManager.set_cache_strategy(LRUCachingStrategy(n)), called once as
\* the demo does ("Configure eviction policy before any gets")
set_cache_strategy(n) ==
    /\ ~cache_strategy.configured
    /\ cache_strategy' = [configured |-> TRUE, capacity |-> n, od |-> <<>>]
    /\ lastCall' = [NoManagerCall EXCEPT !.op = "set_cache_strategy",
                                         !.early = lastCall.early]
    /\ UNCHANGED <<assets, objects>>
    /\ UNCHANGED <<capacity, cache, nodes, lastOp, touchSeq, shadow, threads, manager>>

\* AssetManager.get_asset(asset_id, path, size)
get_asset(asset_id) ==
    LET hit  == asset_id \in DOMAIN assets
        \* miss: asset = Asset(...); asset.load(); self._assets[asset_id] = asset
        a    == NewAsset(DOMAIN objects, asset_id)
        o1   == load([x \in DOMAIN objects \cup {a} |->
                        IF x = a THEN Asset(asset_id) ELSE objects[x]], a)
        as1  == [i \in DOMAIN assets \cup {asset_id} |->
                    IF i = asset_id THEN a ELSE assets[i]]
        w0   == [od |-> cache_strategy.od, objs |-> o1, unloads |-> <<>>,
                 evicted |-> <<>>, exc |-> "none", mapped |-> DOMAIN as1]
        \* if not self._cache_strategy: raise RuntimeError(...)
        w    == IF ~cache_strategy.configured
                THEN [w0 EXCEPT !.exc = "RuntimeError"]
                ELSE call_cache(w0, cache_strategy.capacity, a)
        ret  == IF hit THEN assets[asset_id] ELSE a
    IN  /\ assets' = IF hit THEN assets ELSE as1
        /\ cache_strategy' = IF hit THEN cache_strategy
                             ELSE [cache_strategy EXCEPT !.od = w.od]
        /\ objects' = IF hit THEN objects ELSE CollectAssets(w.objs, as1, w.od)
        /\ lastCall' =
             [op |-> "get_asset", id |-> asset_id, hit |-> hit,
              exc |-> IF hit THEN "none" ELSE w.exc,
              returned |-> IF ~hit /\ w.exc # "none" THEN None ELSE ret,
              loaded |-> IF hit THEN objects[ret].loaded
                         ELSE w.exc = "none" /\ w.objs[ret].loaded,
              evicted |-> IF hit THEN <<>> ELSE w.evicted,
              unloads |-> IF hit THEN <<>> ELSE w.unloads,
              held0 |-> DOMAIN assets,
              prevHit |-> IF lastCall.op = "get_asset" /\ lastCall.hit
                          THEN lastCall.id ELSE None,
              early |-> lastCall.early \/ ~cache_strategy.configured]
        /\ UNCHANGED <<capacity, cache, nodes, lastOp, touchSeq, shadow, threads, manager>>

\* AssetManager.release_asset(asset_id)
release_asset(asset_id) ==
    LET hit == asset_id \in DOMAIN assets
        a   == assets[asset_id]
        as1 == DropKeys(assets, {asset_id})
    IN  /\ assets' = as1
        /\ objects' = IF hit
                      THEN CollectAssets(unload(objects, a), as1, cache_strategy.od)
                      ELSE objects
        /\ lastCall' =
             [op |-> "release_asset", id |-> asset_id, hit |-> hit, exc |-> "none",
              returned |-> None, loaded |-> FALSE, evicted |-> <<>>,
              unloads |-> IF hit
                          THEN <<[asset |-> a, id |-> asset_id, by |-> "release",
                                  loaded |-> unload(objects, a)[a].loaded,
                                  cached |-> OdIds(cache_strategy.od),
                                  mapped |-> DOMAIN as1]>>
                          ELSE <<>>,
              held0 |-> DOMAIN assets,
              prevHit |-> None,
              early |-> lastCall.early]
        /\ UNCHANGED cache_strategy
        /\ UNCHANGED <<capacity, cache, nodes, lastOp, touchSeq, shadow, threads, manager>>

\* the LRUCache of the module is not used by the manager: it stays as built
InitAM ==
    /\ capacity = 1
    /\ cache = [k \in {} |-> None]
    /\ nodes = [n \in {head, tail} |->
                  IF n = head
                  THEN [key |-> None, value |-> None, prev |-> None, next |-> tail]
                  ELSE [key |-> None, value |-> None, prev |-> head, next |-> None]]
    /\ lastOp = [op |-> "new", key |-> None, value |-> None, result |-> None,
                 hit |-> FALSE, size0 |-> 0, order |-> <<>>, evicted |-> <<>>,
                 raised |-> FALSE,
                 before |-> NoCall]
    /\ touchSeq = <<>>
    /\ shadow = [k \in {} |-> None]
    /\ threads = <<>>
    /\ _init

NextAM ==
    \/ \E n \in StrategyCapacities : set_cache_strategy(n)
    \/ \E asset_id \in AssetIds : get_asset(asset_id)
    \/ \E asset_id \in AssetIds : release_asset(asset_id)

SpecAM == InitAM /\ [][NextAM]_vars

\* ------------------------------------------ the manager called from threads
\* Each thread runs m = AssetManager(), may then run
\* m.set_cache_strategy(LRUCachingStrategy(n)) if no thread has, and makes
\* one call, m.get_asset(id) or m.release_asset(id).  Every statement of
\* __new__, get_asset and release_asset is one step.

\* a thread: its position, the instance it was given, its call, the locals
\* asset and result, the exception that ended the call, and three notes:
\* the Asset object the call constructed, whether a strategy was configured
\* and whether some call had already raised when the call took the lock
NoCaller(pc) ==
    [pc |-> pc, self |-> None, op |-> "none", id |-> None, asset |-> None,
     result |-> None, exc |-> "none", made |-> None, conf |-> FALSE,
     late |-> FALSE]

InitAMConc ==
    /\ capacity = 1
    /\ cache = [k \in {} |-> None]
    /\ nodes = [n \in {head, tail} |->
                  IF n = head
                  THEN [key |-> None, value |-> None, prev |-> None, next |-> tail]
                  ELSE [key |-> None, value |-> None, prev |-> head, next |-> None]]
    /\ lastOp = [op |-> "new", key |-> None, value |-> None, result |-> None,
                 hit |-> FALSE, size0 |-> 0, order |-> <<>>, evicted |-> <<>>,
                 raised |-> FALSE,
                 before |-> NoCall]
    /\ touchSeq = <<>>
    /\ shadow = [k \in {} |-> None]
    /\ threads = [t \in Threads |-> NoCaller("start")]
    /\ assets = [i \in {} |-> None]
    /\ cache_strategy = NoStrategy
    /\ objects = [a \in {} |-> None]
    /\ lastCall = NoManagerCall
    /\ manager = NotConstructed

\* Asset objects referenced by the manager, the strategy or a thread's local
CollectAssetsConc(objs, as, od, th) ==
    [a \in (Range(as) \cup OdAssets(od) \cup {th[t].asset : t \in DOMAIN th})
             \cap DOMAIN objs |-> objs[a]]

\* thread t has executed a statement that left the asset map as, the
\* strategy cs, the Asset objects objs and the class state m, and continues
\* as the record th
StepAM(t, as, cs, objs, m, th) ==
    LET th1 == [threads EXCEPT ![t] = th]
    IN  /\ threads' = th1
        /\ assets' = as
        /\ cache_strategy' = cs
        /\ objects' = CollectAssetsConc(objs, as, cs.od, th1)
        /\ manager' = m
        /\ UNCHANGED <<capacity, cache, nodes, lastOp, touchSeq, shadow, lastCall>>

\* a thread moves on and nothing else changes
Goto(t, pc) ==
    StepAM(t, assets, cache_strategy, objects, manager,
           [threads[t] EXCEPT !.pc = pc])

\* leaving `with self._lock:`, by return or by an exception
exit_with_keeps_lock(m) == m

exit_with(m) == [m EXCEPT !.lock = None]

\* an exception raised inside `with self._lock:` ends the call of thread t
RaiseAM(t, as, cs, objs, e) ==
    StepAM(t, as, cs, objs, exit_with(manager),
           [threads[t] EXCEPT !.pc = "raised", !.exc = e, !.asset = None])

\* if cls._instance is None
instance_is_none_always(m) == TRUE

instance_is_none(m) == m.instance = None

\* a thread starts AssetManager()
call_new(t) ==
    /\ threads[t].pc = "start"
    /\ Goto(t, "new_lock")

\* __new__: with cls._instance_lock
new_lock(t) ==
    /\ threads[t].pc = "new_lock"
    /\ manager.instance_lock = None
    /\ StepAM(t, assets, cache_strategy, objects,
              [manager EXCEPT !.instance_lock = t],
              [threads[t] EXCEPT !.pc = "new_test"])

\* __new__: if cls._instance is None
new_test(t) ==
    /\ threads[t].pc = "new_test"
    /\ Goto(t, IF instance_is_none(manager) THEN "new_create" ELSE "new_exit")

\* __new__: cls._instance = super().__new__(cls)
new_create(t) ==
    /\ threads[t].pc = "new_create"
    /\ StepAM(t, assets, cache_strategy, objects,
              [manager EXCEPT !.instance = manager.creates + 1,
                              !.creates = manager.creates + 1],
              [threads[t] EXCEPT !.pc = "new_init"])

\* __new__: cls._instance._init(), which sets an empty asset map, no
\* strategy and a new lock
new_init(t) ==
    /\ threads[t].pc = "new_init"
    /\ StepAM(t, [i \in {} |-> None], NoStrategy, objects,
              [manager EXCEPT !.inits = manager.inits + 1, !.lock = None],
              [threads[t] EXCEPT !.pc = "new_exit"])

\* __new__: the with block ends
new_exit(t) ==
    /\ threads[t].pc = "new_exit"
    /\ StepAM(t, assets, cache_strategy, objects,
              [manager EXCEPT !.instance_lock = None],
              [threads[t] EXCEPT !.pc = "new_return"])

\* __new__: return cls._instance
new_return(t) ==
    /\ threads[t].pc = "new_return"
    /\ StepAM(t, assets, cache_strategy, objects, manager,
              [threads[t] EXCEPT !.pc = "ready", !.self = manager.instance])

\* set_cache_strategy(LRUCachingStrategy(n)): one assignment, no lock
call_set_cache_strategy(t, n) ==
    /\ threads[t].pc = "ready"
    /\ ~cache_strategy.configured
    /\ StepAM(t, assets, [configured |-> TRUE, capacity |-> n, od |-> <<>>],
              objects, manager, threads[t])

\* a thread enters get_asset(asset_id, path, size)
call_get_asset(t, asset_id) ==
    /\ threads[t].pc = "ready"
    /\ StepAM(t, assets, cache_strategy, objects, manager,
              [threads[t] EXCEPT !.pc = "ga_lock", !.op = "get_asset",
                                 !.id = asset_id])

\* get_asset: with self._lock
ga_lock(t) ==
    /\ threads[t].pc = "ga_lock"
    /\ manager.lock = None
    /\ StepAM(t, assets, cache_strategy, objects, [manager EXCEPT !.lock = t],
              [threads[t] EXCEPT !.pc = "ga_test",
                                 !.conf = cache_strategy.configured,
                                 !.late = \E u \in Threads : threads[u].pc = "raised"])

\* get_asset: if asset_id in self._assets
ga_test(t) ==
    /\ threads[t].pc = "ga_test"
    /\ Goto(t, IF threads[t].id \in DOMAIN assets THEN "ga_hit" ELSE "ga_new")

\* get_asset: asset = self._assets[asset_id]
ga_hit(t) ==
    /\ threads[t].pc = "ga_hit"
    /\ IF threads[t].id \in DOMAIN assets
       THEN StepAM(t, assets, cache_strategy, objects, manager,
                   [threads[t] EXCEPT !.pc = "ga_return",
                                      !.asset = assets[threads[t].id]])
       ELSE RaiseAM(t, assets, cache_strategy, objects, "KeyError")

\* get_asset: asset = Asset(asset_id, path, size)
ga_new(t) ==
    /\ threads[t].pc = "ga_new"
    /\ LET a == NewAsset(DOMAIN objects, threads[t].id)
       IN  StepAM(t, assets, cache_strategy,
                  [x \in DOMAIN objects \cup {a} |->
                      IF x = a THEN Asset(threads[t].id) ELSE objects[x]],
                  manager,
                  [threads[t] EXCEPT !.pc = "ga_load", !.asset = a, !.made = a])

\* get_asset: asset.load()
ga_load(t) ==
    /\ threads[t].pc = "ga_load"
    /\ StepAM(t, assets, cache_strategy, load(objects, threads[t].asset), manager,
              [threads[t] EXCEPT !.pc = "ga_store"])

\* get_asset: self._assets[asset_id] = asset
ga_store(t) ==
    /\ threads[t].pc = "ga_store"
    /\ StepAM(t, [i \in DOMAIN assets \cup {threads[t].id} |->
                     IF i = threads[t].id THEN threads[t].asset ELSE assets[i]],
              cache_strategy, objects, manager,
              [threads[t] EXCEPT !.pc = "ga_check"])

\* get_asset: if not self._cache_strategy: raise RuntimeError(...)
ga_check(t) ==
    /\ threads[t].pc = "ga_check"
    /\ IF ~cache_strategy.configured
       THEN RaiseAM(t, assets, cache_strategy, objects, "RuntimeError")
       ELSE Goto(t, "ga_cache")

\* get_asset: self._cache_strategy.cache(asset)
ga_cache(t) ==
    /\ threads[t].pc = "ga_cache"
    /\ LET w == call_cache([od |-> cache_strategy.od, objs |-> objects,
                            unloads |-> <<>>, evicted |-> <<>>, exc |-> "none",
                            mapped |-> DOMAIN assets],
                           cache_strategy.capacity, threads[t].asset)
       IN  IF w.exc # "none"
           THEN RaiseAM(t, assets, [cache_strategy EXCEPT !.od = w.od], w.objs, w.exc)
           ELSE StepAM(t, assets, [cache_strategy EXCEPT !.od = w.od], w.objs,
                       manager, [threads[t] EXCEPT !.pc = "ga_return"])

\* get_asset: return asset, leaving the with block
ga_return(t) ==
    /\ threads[t].pc = "ga_return"
    /\ StepAM(t, assets, cache_strategy, objects, exit_with(manager),
              [threads[t] EXCEPT !.pc = "done", !.result = threads[t].asset,
                                 !.asset = None])

\* a thread enters release_asset(asset_id)
call_release_asset(t, asset_id) ==
    /\ threads[t].pc = "ready"
    /\ StepAM(t, assets, cache_strategy, objects, manager,
              [threads[t] EXCEPT !.pc = "ra_lock", !.op = "release_asset",
                                 !.id = asset_id])

\* release_asset: with self._lock
ra_lock(t) ==
    /\ threads[t].pc = "ra_lock"
    /\ manager.lock = None
    /\ StepAM(t, assets, cache_strategy, objects, [manager EXCEPT !.lock = t],
              [threads[t] EXCEPT !.pc = "ra_pop",
                                 !.conf = cache_strategy.configured,
                                 !.late = \E u \in Threads : threads[u].pc = "raised"])

\* release_asset: asset = self._assets.pop(asset_id, None)
ra_pop(t) ==
    /\ threads[t].pc = "ra_pop"
    /\ StepAM(t, DropKeys(assets, {threads[t].id}), cache_strategy, objects, manager,
              [threads[t] EXCEPT !.pc = "ra_test",
                                 !.asset = IF threads[t].id \in DOMAIN assets
                                           THEN assets[threads[t].id] ELSE None])

\* release_asset: if asset
ra_test(t) ==
    /\ threads[t].pc = "ra_test"
    /\ Goto(t, IF threads[t].asset # None THEN "ra_unload" ELSE "ra_exit")

\* release_asset: asset.unload()
ra_unload(t) ==
    /\ threads[t].pc = "ra_unload"
    /\ StepAM(t, assets, cache_strategy, unload(objects, threads[t].asset), manager,
              [threads[t] EXCEPT !.pc = "ra_exit"])

\* release_asset: the with block ends
ra_exit(t) ==
    /\ threads[t].pc = "ra_exit"
    /\ StepAM(t, assets, cache_strategy, objects, exit_with(manager),
              [threads[t] EXCEPT !.pc = "done", !.asset = None])

\* the statements of a call that has begun
Running(t) ==
    \/ new_lock(t) \/ new_test(t) \/ new_create(t) \/ new_init(t)
    \/ new_exit(t) \/ new_return(t)
    \/ ga_lock(t) \/ ga_test(t) \/ ga_hit(t) \/ ga_new(t) \/ ga_load(t)
    \/ ga_store(t) \/ ga_check(t) \/ ga_cache(t) \/ ga_return(t)
    \/ ra_lock(t) \/ ra_pop(t) \/ ra_test(t) \/ ra_unload(t) \/ ra_exit(t)

NextAMConc ==
    \/ \E t \in Threads : call_new(t)
    \/ \E t \in Threads : new_lock(t)
    \/ \E t \in Threads : new_test(t)
    \/ \E t \in Threads : new_create(t)
    \/ \E t \in Threads : new_init(t)
    \/ \E t \in Threads : new_exit(t)
    \/ \E t \in Threads : new_return(t)
    \/ \E t \in Threads, n \in StrategyCapacities : call_set_cache_strategy(t, n)
    \/ \E t \in Threads, asset_id \in AssetIds : call_get_asset(t, asset_id)
    \/ \E t \in Threads : ga_lock(t)
    \/ \E t \in Threads : ga_test(t)
    \/ \E t \in Threads : ga_hit(t)
    \/ \E t \in Threads : ga_new(t)
    \/ \E t \in Threads : ga_load(t)
    \/ \E t \in Threads : ga_store(t)
    \/ \E t \in Threads : ga_check(t)
    \/ \E t \in Threads : ga_cache(t)
    \/ \E t \in Threads : ga_return(t)
    \/ \E t \in Threads, asset_id \in AssetIds : call_release_asset(t, asset_id)
    \/ \E t \in Threads : ra_lock(t)
    \/ \E t \in Threads : ra_pop(t)
    \/ \E t \in Threads : ra_test(t)
    \/ \E t \in Threads : ra_unload(t)
    \/ \E t \in Threads : ra_exit(t)

SpecAMConc == InitAMConc /\ [][NextAMConc]_vars

\* The same threads with every thread that is inside a call kept scheduled.
\* Neither lock depends on which asset or which capacity a call names, so
\* the calls draw from fewer of them.
LiveAssetIds == 1..MaxLiveAsset

NextAMLive ==
    \/ \E t \in Threads : call_new(t)
    \/ \E t \in Threads : new_lock(t)
    \/ \E t \in Threads : new_test(t)
    \/ \E t \in Threads : new_create(t)
    \/ \E t \in Threads : new_init(t)
    \/ \E t \in Threads : new_exit(t)
    \/ \E t \in Threads : new_return(t)
    \/ \E t \in Threads, n \in {MaxCapacity} : call_set_cache_strategy(t, n)
    \/ \E t \in Threads, asset_id \in LiveAssetIds : call_get_asset(t, asset_id)
    \/ \E t \in Threads : ga_lock(t)
    \/ \E t \in Threads : ga_test(t)
    \/ \E t \in Threads : ga_hit(t)
    \/ \E t \in Threads : ga_new(t)
    \/ \E t \in Threads : ga_load(t)
    \/ \E t \in Threads : ga_store(t)
    \/ \E t \in Threads : ga_check(t)
    \/ \E t \in Threads : ga_cache(t)
    \/ \E t \in Threads : ga_return(t)
    \/ \E t \in Threads, asset_id \in LiveAssetIds : call_release_asset(t, asset_id)
    \/ \E t \in Threads : ra_lock(t)
    \/ \E t \in Threads : ra_pop(t)
    \/ \E t \in Threads : ra_test(t)
    \/ \E t \in Threads : ra_unload(t)
    \/ \E t \in Threads : ra_exit(t)

SpecAMLive ==
    /\ InitAMConc
    /\ [][NextAMLive]_vars
    /\ \A t \in Threads : WF_vars(Running(t))

\* ------------------------------------------------------------ observers
size == Cardinality(DOMAIN cache)

\* the references met following next from head.next, until the tail
\* sentinel, a None link or a dangling link stops the walk
RECURSIVE Walk(_, _, _)
Walk(mem, n, fuel) ==
    IF n = tail \/ n \notin DOMAIN mem \/ fuel = 0 THEN <<>>
    ELSE <<n>> \o Walk(mem, mem[n].next, fuel - 1)

Linked == Walk(nodes, nodes[head].next, Cardinality(DOMAIN nodes))

\* the key at the head of the list, None when the list is empty
MostRecentKey ==
    IF Linked = <<>> THEN None ELSE nodes[Linked[1]].key

\* ------------------------------------------------------------------ C1
\* C1: for a cache constructed with capacity c >= 1, after every get or put
\* the key -> node map holds at most c keys.
C1_CapacityInvariant ==
    capacity >= 1 => size <= capacity

\* a put into a full cache with capacity >= 1 has evicted and left it full
C1_Witness ==
    /\ capacity >= 1
    /\ lastOp.op = "put"
    /\ lastOp.size0 = capacity
    /\ lastOp.evicted # <<>>
    /\ size = capacity

\* ------------------------------------------------------------------ C2
\* C2: the mapped keys and the nodes linked between the sentinels are in
\* bijection: every mapped key has exactly one linked node carrying that
\* key, and every linked node is the node the map holds for its key.
C2_MapListBijection ==
    /\ \A k \in DOMAIN cache :
          Cardinality({i \in 1..Len(Linked) : nodes[Linked[i]].key = k}) = 1
    /\ \A i \in 1..Len(Linked) :
          /\ nodes[Linked[i]].key \in DOMAIN cache
          /\ cache[nodes[Linked[i]].key] = Linked[i]

\* two keys are mapped and linked after an eviction took place
C2_Witness ==
    /\ lastOp.op = "put"
    /\ lastOp.evicted # <<>>
    /\ size >= 2
    /\ Len(Linked) = size

\* ------------------------------------------------------------------ C3
\* C3: whenever a put of a new key evicts, the evicted key is the least
\* recently used one among the keys present before the put (the key whose
\* last successful get or put is oldest).
C3_EvictsLeastRecentlyUsed ==
    (lastOp.op = "put" /\ ~lastOp.hit /\ lastOp.evicted # <<>>) =>
        /\ lastOp.order # <<>>
        /\ lastOp.evicted = <<lastOp.order[1]>>

\* ------------------------------------------------------------------ C4
\* the last call was a put of a new key into a full cache, and the call just
\* before it was a successful get of the key that was then least recently used
PutAfterGetOfLRU ==
    /\ lastOp.op = "put" /\ ~lastOp.hit
    /\ lastOp.size0 = capacity
    /\ lastOp.before.op = "get" /\ lastOp.before.hit
    /\ lastOp.before.order[1] = lastOp.before.key

\* C4 as claimed: after a successful get(K) on the least recently used key
\* K, the next put of a new key into the full cache evicts the key that was
\* second least recently used, and not K.
C4_GetRefreshesRecency ==
    PutAfterGetOfLRU =>
        /\ Len(lastOp.before.order) >= 2
        /\ lastOp.evicted = <<lastOp.before.order[2]>>
        /\ lastOp.evicted # <<lastOp.before.key>>

\* C4 amended: the same, when the cache held at least two keys at the get.
C4_GetRefreshesRecencyTwoKeys ==
    (PutAfterGetOfLRU /\ Len(lastOp.before.order) >= 2) =>
        /\ lastOp.evicted = <<lastOp.before.order[2]>>
        /\ lastOp.evicted # <<lastOp.before.key>>

\* the second least recently used key was evicted and the refreshed key
\* is still mapped
C4_Witness ==
    /\ PutAfterGetOfLRU
    /\ Len(lastOp.before.order) >= 2
    /\ lastOp.evicted = <<lastOp.before.order[2]>>
    /\ lastOp.before.key \in DOMAIN cache

\* ------------------------------------------------------------------ C5
\* C5: immediately after a get(K) that finds K, or after any put(K, v), K's
\* node is the first node after the head sentinel.
C5_TouchedKeyIsAtHead ==
    ((lastOp.op = "get" /\ lastOp.hit) \/ lastOp.op = "put") =>
        /\ lastOp.key \in DOMAIN cache
        /\ nodes[head].next = cache[lastOp.key]
        /\ MostRecentKey = lastOp.key

\* ------------------------------------------------------------------ C6
\* C6: for every key put and not evicted since, get(key) returns exactly the
\* value of the most recent put of that key, whatever calls on other keys
\* happened in between.
C6_RoundTrip ==
    \A k \in DOMAIN shadow : get_result(cache, nodes, k) = shadow[k]

\* a get found a key, returned the value last put for it, and the last
\* touch before it was on another key
C6_Witness ==
    /\ lastOp.op = "get" /\ lastOp.hit
    /\ lastOp.key \in DOMAIN shadow
    /\ lastOp.result = shadow[lastOp.key]
    /\ Len(lastOp.order) >= 2
    /\ lastOp.order[Len(lastOp.order)] # lastOp.key

\* ------------------------------------------------------------------ C7
\* C7: put(K, v2) on a key already present makes a following get(K) return
\* v2, leaves the number of entries unchanged and evicts nothing, even when
\* the cache is full.
C7_OverwriteInPlace ==
    (lastOp.op = "put" /\ lastOp.hit) =>
        /\ get_result(cache, nodes, lastOp.key) = lastOp.value
        /\ size = lastOp.size0
        /\ lastOp.evicted = <<>>

\* a present key was overwritten in a full cache
C7_Witness ==
    /\ lastOp.op = "put" /\ lastOp.hit
    /\ lastOp.size0 = capacity
    /\ size = capacity
    /\ get_result(cache, nodes, lastOp.key) = lastOp.value

\* ------------------------------------------------------------------ C8
\* C8: a put of an absent key into a cache holding exactly capacity entries
\* evicts exactly one entry and leaves the size at capacity; a put of an
\* absent key while size < capacity evicts nothing and adds one to the size.
C8_EvictOnlyWhenFull ==
    (lastOp.op = "put" /\ ~lastOp.hit) =>
        /\ lastOp.size0 = capacity =>
              (Len(lastOp.evicted) = 1 /\ size = capacity)
        /\ lastOp.size0 < capacity =>
              (lastOp.evicted = <<>> /\ size = lastOp.size0 + 1)

\* a new key went into a full cache of capacity >= 2 and one entry left
C8_Witness ==
    /\ lastOp.op = "put" /\ ~lastOp.hit
    /\ capacity >= 2
    /\ lastOp.size0 = capacity
    /\ Len(lastOp.evicted) = 1
    /\ size = capacity

\* ------------------------------------------------------------------ C9
\* C9: construction with capacity <= 0 is rejected, so no cache with a
\* non-positive capacity ever exists or accepts a get or a put.
C9_NoNonPositiveCapacity ==
    lastOp.op \in {"get", "put"} => capacity >= 1

\* ----------------------------------------------------------------- C10
\* C10: for every cache construction accepts, a put of an absent key never
\* evicts that same key: right after put(K, v), K is present and get(K)
\* returns v.
C10_NewKeySurvivesItsPut ==
    (lastOp.op = "put" /\ ~lastOp.hit) =>
        /\ lastOp.key \in DOMAIN cache
        /\ lastOp.key \notin SeqSet(lastOp.evicted)
        /\ get_result(cache, nodes, lastOp.key) = lastOp.value

C12_MissChangesNothing ==
    [][(lastOp'.op = "get" /\ ~lastOp'.hit) =>
          /\ lastOp'.result = NotFound
          /\ cache' = cache
          /\ nodes' = nodes
          /\ Linked' = Linked
          /\ touchSeq' = touchSeq]_vars

\* a get missed in a cache that holds two keys
C12_Witness ==
    /\ lastOp.op = "get" /\ ~lastOp.hit
    /\ lastOp.result = NotFound
    /\ size >= 2
    /\ Len(Linked) = size

\* ----------------------------------------------------------------- C13
\* the keys carried by the nodes linked between the sentinels
LinkedKeys == {nodes[Linked[i]].key : i \in 1..Len(Linked)}

\* C13: get never changes the set of keys present (mapped, and linked in the
\* list) nor the value stored for any key; it may only change the order.
C13_GetKeepsKeysAndValues ==
    [][lastOp'.op = "get" =>
          /\ DOMAIN cache' = DOMAIN cache
          /\ LinkedKeys' = LinkedKeys
          /\ \A k \in DOMAIN cache :
                get_result(cache', nodes', k) = get_result(cache, nodes, k)]_vars

\* a get moved the least recently used of two or more keys to the head
C13_Witness ==
    /\ lastOp.op = "get" /\ lastOp.hit
    /\ Len(lastOp.order) >= 2
    /\ lastOp.order[1] = lastOp.key
    /\ MostRecentKey = lastOp.key
    /\ size = lastOp.size0

\* ----------------------------------------------------------------- C14
\* every thread has returned from its call or died in it
Finished ==
    /\ threads # <<>>
    /\ \A t \in DOMAIN threads : threads[t].pc \in {"done", "raised"}

\* C14: when two or more threads run interleaved put and get calls on
\* overlapping keys, every interleaving ends, after all threads have
\* finished, with size <= capacity and the map and the list in bijection.
C14_ConsistentAfterJoin ==
    Finished => (size <= capacity /\ C2_MapListBijection)

\* ----------------------------------------------------------------- C15
\* thread t is about to execute the first statement of a call, the test
\* `key in self.cache`
Entering(t) == threads[t].pc \in {"get_test", "put_test"}

\* thread u is inside put
InsidePut(u) ==
    /\ threads[u].pc \notin {"idle", "done", "raised"}
    /\ threads[u].value # None

\* C15: no get or put running concurrently with another put observes a
\* partially updated cache: a mapped key whose node is not linked, a linked
\* node whose key is not mapped, or a map with more than capacity keys.
C15_NoPartialStateObserved ==
    \A t, u \in DOMAIN threads :
        (t # u /\ Entering(t) /\ InsidePut(u)) =>
            (size <= capacity /\ C2_MapListBijection)

\* ----------------------------------------------------------------- C16
\* the last call was a get_asset that loaded a new asset while the manager,
\* with a strategy of capacity N >= 1 configured before the first get_asset,
\* already held N or more assets: the load that should evict
LoadAtCapacity ==
    /\ lastCall.op = "get_asset" /\ ~lastCall.hit
    /\ cache_strategy.configured /\ ~lastCall.early
    /\ cache_strategy.capacity >= 1
    /\ Cardinality(lastCall.held0) >= cache_strategy.capacity

\* one unload() call per eviction, on the evicted asset, made by evict
\* inside the call that caused the eviction, the new asset being mapped
OneUnloadPerEviction ==
    /\ Len(lastCall.unloads) = Len(lastCall.evicted)
    /\ \A i \in 1..Len(lastCall.unloads) :
          /\ lastCall.unloads[i].by = "evict"
          /\ lastCall.unloads[i].id = lastCall.evicted[i]
          /\ lastCall.id \in lastCall.unloads[i].mapped

\* C16: every capacity-triggered eviction invokes the eviction reaction (in
\* the asset manager, the evicted asset's unload) exactly once, with the
\* evicted entry, inside the call that caused it and after the new entry is
\* visible: a load at capacity evicts one asset and unloads it once.
C16_EvictionUnloadsOnce ==
    LoadAtCapacity =>
        /\ Len(lastCall.evicted) = 1
        /\ OneUnloadPerEviction

\* ----------------------------------------------------------------- C17
\* C17: after release_asset(id) of a held asset, id is absent from both the
\* manager's asset map and the strategy's recency structure, and the two
\* hold the same key set.
C17_ReleaseKeepsMapAndStrategyEqual ==
    (lastCall.op = "release_asset" /\ lastCall.hit /\ cache_strategy.configured
       /\ ~lastCall.early) =>
        /\ lastCall.id \notin DOMAIN assets
        /\ lastCall.id \notin OdIds(cache_strategy.od)
        /\ DOMAIN assets = OdIds(cache_strategy.od)

\* ----------------------------------------------------------------- C18
\* C18: after a get_asset hit on asset X, the next eviction caused by
\* loading a new asset does not choose X while another cached asset was
\* used less recently: when the load follows the hit directly and two or
\* more assets are held, the load evicts an asset other than X.
C18_HitBumpsRecency ==
    (/\ LoadAtCapacity
     /\ lastCall.prevHit # None
     /\ Cardinality(lastCall.held0) >= 2)
    => (/\ lastCall.evicted # <<>>
        /\ lastCall.prevHit \notin SeqSet(lastCall.evicted))

\* ----------------------------------------------------------------- C19
\* the assets the manager holds that are loaded
LoadedHeld == {i \in DOMAIN assets : objects[assets[i]].loaded}

\* C19: with an LRUCachingStrategy of capacity N >= 1 configured before the
\* first get_asset, the manager holds at most N loaded assets after any
\* sequence of get_asset and release_asset calls.
C19_AtMostNLoaded ==
    (/\ cache_strategy.configured
     /\ cache_strategy.capacity >= 1
     /\ ~lastCall.early)
    => Cardinality(LoadedHeld) <= cache_strategy.capacity

C21_NoAssetWithoutStrategy ==
    (lastCall.op = "get_asset" /\ ~cache_strategy.configured) =>
        /\ lastCall.exc = "RuntimeError"
        /\ lastCall.returned = None

C28_FailedGetChangesNothing ==
    (lastCall.op = "get_asset" /\ lastCall.exc = "RuntimeError") =>
        /\ DOMAIN assets = lastCall.held0
        /\ lastCall.id \notin DOMAIN assets

\* ----------------------------------------------------------------- C23
\* put calls remove_tail exactly when the map, the new key included, holds
\* more keys than the capacity
RemoveTailInvoked ==
    /\ lastOp.op = "put" /\ ~lastOp.hit
    /\ over_capacity(lastOp.size0 + 1, capacity)

\* C23: in any sequence of get and put, remove_tail is never invoked on an
\* empty list and never unlinks or returns a sentinel: nothing raises, and
\* the node it returns carries a real key that was in the map.
C23_RemoveTailReturnsEntry ==
    RemoveTailInvoked =>
        /\ ~lastOp.raised
        /\ Len(lastOp.evicted) = 1
        /\ lastOp.evicted[1] \in Keys
        /\ lastOp.evicted[1] \in SeqSet(lastOp.order) \cup {lastOp.key}
        /\ nodes[head].prev = None /\ nodes[tail].next = None
        /\ {head, tail} \subseteq DOMAIN nodes

\* remove_tail ran on a list whose only entry was the node just inserted
C23_Witness ==
    /\ RemoveTailInvoked
    /\ lastOp.size0 = 0
    /\ lastOp.evicted = <<lastOp.key>>

\* ----------------------------------------------------------------- C30
\* the references met following prev from tail.prev, until the head sentinel
RECURSIVE WalkBack(_, _, _)
WalkBack(mem, n, fuel) ==
    IF n = head \/ n \notin DOMAIN mem \/ fuel = 0 THEN <<>>
    ELSE <<n>> \o WalkBack(mem, mem[n].prev, fuel - 1)

\* C30: after any sequence of get and put the doubly linked list is well
\* formed: n.next.prev is n for every node but the tail sentinel, n.prev.next
\* is n for every node but the head sentinel, and following next from the
\* head sentinel reaches the tail sentinel after exactly len(cache) + 1 steps
\* with no node visited twice.
C30_ListWellFormed ==
    /\ \A n \in DOMAIN nodes \ {tail} :
          /\ nodes[n].next \in DOMAIN nodes
          /\ nodes[nodes[n].next].prev = n
    /\ \A n \in DOMAIN nodes \ {head} :
          /\ nodes[n].prev \in DOMAIN nodes
          /\ nodes[nodes[n].prev].next = n
    /\ Len(Linked) = Cardinality(DOMAIN cache)
    /\ Cardinality(SeqSet(Linked)) = Len(Linked)
    /\ (IF Linked = <<>> THEN nodes[head].next ELSE nodes[Linked[Len(Linked)]].next) = tail

\* two nodes are linked after an eviction and a get that moved the last one
C30_Witness ==
    /\ Len(Linked) = 2
    /\ lastOp.op = "get" /\ lastOp.hit
    /\ lastOp.order # <<>> /\ lastOp.order[1] = lastOp.key
    /\ Len(WalkBack(nodes, nodes[tail].prev, Cardinality(DOMAIN nodes))) = 2

\* ----------------------------------------------------------------- C24
\* put of a new key as the design notes order it ("PUT Operation", key does
\* not exist): if the capacity is full, remove the tail node and its key
\* from the map; then create the node, add it to the head and map it.
put_evict_first(c, mem, cap, key, value) ==
    LET full == at_capacity(Cardinality(DOMAIN c), cap)
        rt   == remove_tail(Heap(mem))
        rkey == IF rt.node \in DOMAIN rt.h.mem THEN rt.h.mem[rt.node].key ELSE None
        ok   == ~rt.h.exc /\ rkey \in DOMAIN c
        h0   == IF ~full THEN Heap(mem)
                ELSE IF ok THEN rt.h ELSE [rt.h EXCEPT !.exc = TRUE]
        c0   == IF full /\ ok THEN DropKeys(c, {rkey}) ELSE c
        m0   == Collect(h0.mem, c0)
        ref  == NewRef(DOMAIN m0, key)
        h1   == add_to_head(Alloc([h0 EXCEPT !.mem = m0], ref, key, value), ref)
        c1   == [k \in DOMAIN c0 \cup {key} |-> IF k = key THEN ref ELSE c0[k]]
    IN  IF h0.exc THEN [cache |-> c0, mem |-> m0, raised |-> TRUE]
        ELSE [cache |-> c1, mem |-> Collect(h1.mem, c1), raised |-> h1.exc]

\* the <<key, value>> pairs of the linked nodes, most recently used first
Entries(mem) ==
    LET w == Walk(mem, mem[head].next, Cardinality(DOMAIN mem))
    IN  [i \in 1..Len(w) |-> <<mem[w[i]].key, mem[w[i]].value>>]

\* the key -> value view of a map over a heap
Contents(c, mem) == [k \in DOMAIN c |-> mem[c[k]].value]

\* C24: for every capacity >= 1, a put of a new key into a full cache leaves
\* the same key set, values and recency order whether the tail is removed
\* after the new node was inserted (LRUCache.put) or before (design notes).
C24_EvictOrderIrrelevant ==
    [][(/\ lastOp'.op = "put" /\ ~lastOp'.hit
        /\ capacity >= 1
        /\ Cardinality(DOMAIN cache) = capacity)
       => LET r == put_evict_first(cache, nodes, capacity, lastOp'.key, lastOp'.value)
          IN  /\ r.raised = lastOp'.raised
              /\ DOMAIN r.cache = DOMAIN cache'
              /\ Contents(r.cache, r.mem) = Contents(cache', nodes')
              /\ Entries(r.mem) = Entries(nodes')]_vars

\* a new key was put into a full cache of capacity 2 and evicted the tail
C24_Witness ==
    /\ lastOp.op = "put" /\ ~lastOp.hit
    /\ capacity = 2
    /\ lastOp.size0 = capacity
    /\ lastOp.evicted # <<>>
    /\ Len(Entries(nodes)) = 2
    /\ Entries(nodes)[1][1] = lastOp.key

\* ----------------------------------------------------------------- C25
\* move_to_head taken by itself, on the lists get and put build.
\* self.move_to_head(self.cache[key]): the node is linked
move_to_head_linked(key) ==
    LET h == move_to_head(Heap(nodes), cache[key])
    IN  /\ key \in DOMAIN cache
        /\ nodes' = Collect(h.mem, cache)
        /\ lastOp' = [op |-> "move_to_head", key |-> key, value |-> None,
                      result |-> None, hit |-> TRUE,
                      size0 |-> Cardinality(DOMAIN cache),
                      order |-> RecencyOrder(touchSeq, DOMAIN cache),
                      evicted |-> <<>>, raised |-> h.exc, before |-> NoCall]
        /\ touchSeq' = Touch(touchSeq, key)
        /\ UNCHANGED <<capacity, cache, shadow, threads>>
        /\ UNCHANGED amVars

\* self.move_to_head(Node(key, value)): the node is fresh, prev = next = None
move_to_head_fresh(key, value) ==
    LET ref == NewRef(DOMAIN nodes, key)
        h   == move_to_head(Alloc(Heap(nodes), ref, key, value), ref)
    IN  /\ key \notin DOMAIN cache
        /\ nodes' = Collect(h.mem, cache)
        /\ lastOp' = [op |-> "move_to_head", key |-> key, value |-> value,
                      result |-> None, hit |-> FALSE,
                      size0 |-> Cardinality(DOMAIN cache),
                      order |-> RecencyOrder(touchSeq, DOMAIN cache),
                      evicted |-> <<>>, raised |-> h.exc, before |-> NoCall]
        /\ UNCHANGED <<capacity, cache, touchSeq, shadow, threads>>
        /\ UNCHANGED amVars

NextMove ==
    \/ \E key \in Keys : get(key)
    \/ \E key \in Keys, value \in Values : put(key, value)
    \/ \E key \in Keys : move_to_head_linked(key)
    \/ \E key \in Keys, value \in Values : move_to_head_fresh(key, value)

SpecMove == Init /\ [][NextMove]_vars

\* C25: move_to_head works on a node whether or not it is linked: on a
\* fresh, unlinked node it puts the node at the head without failing, as
\* it re-positions a linked one.
C25_MoveToHeadAnyNode ==
    lastOp.op = "move_to_head" =>
        /\ ~lastOp.raised
        /\ MostRecentKey = lastOp.key

\* C25, amended: move_to_head re-positions a linked node at the head without
\* failing; on a fresh, unlinked node it raises (node.prev is None) and
\* leaves the list and the map as they were.
C25_MoveToHeadNeedsLinkedNode ==
    [][lastOp'.op = "move_to_head" =>
          IF lastOp'.hit
          THEN /\ ~lastOp'.raised
               /\ MostRecentKey' = lastOp'.key
               /\ LinkedKeys' = LinkedKeys
          ELSE /\ lastOp'.raised
               /\ nodes' = nodes
               /\ cache' = cache]_vars

\* move_to_head was applied to a fresh node while the list held an entry
C25_Witness ==
    /\ lastOp.op = "move_to_head" /\ ~lastOp.hit
    /\ lastOp.raised
    /\ Linked # <<>>

\* ----------------------------------------------------------------- C22
\* the threads whose call is over
Ended(t) == threads[t].pc \in {"done", "raised"}

\* the threads between acquiring and releasing self._lock
InCriticalSection(t) ==
    threads[t].pc \in {"ga_test", "ga_hit", "ga_new", "ga_load", "ga_store",
                       "ga_check", "ga_cache", "ga_return",
                       "ra_pop", "ra_test", "ra_unload", "ra_exit"}

\* the get_asset calls for asset_id, begun with a strategy configured
Getters(asset_id) ==
    {t \in Threads : /\ threads[t].op = "get_asset"
                     /\ threads[t].id = asset_id
                     /\ threads[t].pc # "ga_lock"
                     /\ threads[t].conf}

\* C22: the manager is thread-safe for concurrent gets and releases: when
\* several threads call get_asset for the same id, with a strategy
\* configured and no release of that id, one Asset object is created for the
\* id and every caller receives that object; the critical sections of
\* get_asset and release_asset never overlap.
C22_ConcurrentGetsShareOneAsset ==
    /\ Cardinality({t \in Threads : InCriticalSection(t)}) <= 1
    /\ \A asset_id \in AssetIds :
          (/\ Cardinality(Getters(asset_id)) >= 2
           /\ \A t \in Getters(asset_id) : Ended(t)
           /\ \A t \in Threads : ~(/\ threads[t].op = "release_asset"
                                   /\ threads[t].id = asset_id))
          => /\ Cardinality({t \in Getters(asset_id) : threads[t].made # None}) = 1
             /\ \A t, u \in Getters(asset_id) :
                   /\ threads[t].result # None
                   /\ threads[t].result = threads[u].result

\* ----------------------------------------------------------------- C26
\* C26: a thread that holds the manager's lock eventually releases it, on
\* every exit path of get_asset and release_asset, the raising ones
\* included; so every call waiting for the lock eventually acquires it and
\* ends.
C26_LockEventuallyReleased ==
    \A t \in Threads :
        /\ (manager.lock = t) ~> (manager.lock # t)
        /\ (threads[t].pc \in {"ga_lock", "ra_lock"}) ~> Ended(t)

\* a call took the lock after another call had raised "Cache strategy not
\* configured" inside it, and has ended with the lock free
C26_Witness ==
    /\ manager.lock = None
    /\ \E t, u \in Threads :
          /\ threads[t].pc = "raised" /\ threads[t].exc = "RuntimeError"
          /\ threads[u].pc = "done" /\ threads[u].late

\* ----------------------------------------------------------------- C29
\* the threads inside AssetManager.__new__
Constructing(t) ==
    threads[t].pc \in {"new_lock", "new_test", "new_create", "new_init",
                       "new_exit", "new_return"}

\* C29: AssetManager is a singleton initialised once: every construction,
\* racing ones included, returns the same instance, _init runs once, and a
\* construction after the first leaves the asset map, the strategy and the
\* lock as they are.
C29_SingletonInitialisedOnce ==
    [][/\ manager'.creates <= 1
       /\ manager'.inits <= 1
       /\ \A t \in Threads :
             (threads'[t].pc \notin {"start"} /\ ~Constructing(t)')
             => threads'[t].self = manager'.instance /\ threads'[t].self # None
       /\ (/\ manager.inits >= 1
           /\ \E t \in Threads : Constructing(t) /\ threads'[t] # threads[t])
          => /\ assets' = assets
             /\ cache_strategy' = cache_strategy
             /\ manager'.lock = manager.lock]_vars

\* a thread is given the instance by its construction after another thread
\* configured a strategy on it and stored an asset in it
C29_Witness ==
    /\ cache_strategy.configured
    /\ DOMAIN assets # {}
    /\ \E t, u \in Threads :
          /\ threads[t].pc = "ready" /\ threads[t].op = "none"
          /\ threads[t].self = manager.instance
          /\ threads[u].pc = "raised"
    /\ manager.inits = 1

\* ----------------------------------------------------------------- C31
\* the entries of a list, most recently used first, without those of key k
\* and those whose key is not in S
OtherEntries(mem, k, S) ==
    SelectSeq(Entries(mem), LAMBDA e : e[1] # k /\ e[1] \in S)

\* C31: a get or put that touches key K leaves the relative recency order
\* and the values of all other keys that remain cached unchanged, and the
\* only entry it may remove is the single least recently used one.
C31_OtherEntriesKeepOrderAndValue ==
    [][lastOp'.op \in {"get", "put"} =>
          LET K       == lastOp'.key
              removed == DOMAIN cache \ DOMAIN cache'
              before  == Entries(nodes)
          IN  /\ OtherEntries(nodes', K, DOMAIN cache')
                   = OtherEntries(nodes, K, DOMAIN cache')
              /\ \A k \in DOMAIN cache' \ {K} :
                    /\ k \in DOMAIN cache
                    /\ nodes'[cache'[k]].value = nodes[cache[k]].value
              /\ Cardinality(removed) <= 1
              /\ removed # {} =>
                    /\ before # <<>>
                    /\ removed = {before[Len(before)][1]}
                    /\ K \notin removed]_vars

\* a put of a new key evicted the least recently used of two keys and the
\* other one is still linked behind the new key
C31_Witness ==
    /\ lastOp.op = "put" /\ ~lastOp.hit
    /\ Len(lastOp.order) = 2
    /\ lastOp.evicted = <<lastOp.order[1]>>
    /\ Len(Entries(nodes)) = 2
    /\ Entries(nodes)[2][1] = lastOp.order[2]

\* ----------------------------------------------------------------- C32
\* An LRUCachingStrategy taken by itself and handed assets.  The call as it
\* is written on an instance, strategy.cache(asset), finds the OrderedDict
\* and raises TypeError; the method body runs when the method is reached
\* through the class, LRUCachingStrategy.cache(strategy, asset).
InitStrategy ==
    /\ capacity = 1
    /\ cache = [k \in {} |-> None]
    /\ nodes = [n \in {head, tail} |->
                  IF n = head
                  THEN [key |-> None, value |-> None, prev |-> None, next |-> tail]
                  ELSE [key |-> None, value |-> None, prev |-> head, next |-> None]]
    /\ lastOp = [op |-> "new", key |-> None, value |-> None, result |-> None,
                 hit |-> FALSE, size0 |-> 0, order |-> <<>>, evicted |-> <<>>,
                 raised |-> FALSE,
                 before |-> NoCall]
    /\ touchSeq = <<>>
    /\ shadow = [k \in {} |-> None]
    /\ threads = <<>>
    /\ assets = [i \in {} |-> None]
    /\ \E n \in StrategyCapacities :
          cache_strategy = [configured |-> TRUE, capacity |-> n, od |-> <<>>]
    /\ objects = [a \in {} |-> None]
    /\ lastCall = NoManagerCall
    /\ manager = NotConstructed

\* the Asset objects a caller can hand over for an id: the one the strategy
\* holds for it, or a new Asset(asset_id, ...), loaded or not
AssetChoices == {"held", "new_loaded", "new_unloaded"}

\* one call with the asset chosen, `through` telling how the method is
\* reached: the strategy, the Asset objects and the observation it leaves
cache_call(through, asset_id, choice) ==
    LET od   == cache_strategy.od
        idx  == CHOOSE i \in 1..Len(od) : od[i][1] = asset_id
        a    == IF choice = "held" THEN od[idx][2]
                ELSE NewAsset(DOMAIN objects, asset_id)
        o1   == IF choice = "held" THEN objects
                ELSE [x \in DOMAIN objects \cup {a} |->
                        IF x = a
                        THEN [Asset(asset_id) EXCEPT !.loaded = (choice = "new_loaded")]
                        ELSE objects[x]]
        w0   == [od |-> od, objs |-> o1, unloads |-> <<>>, evicted |-> <<>>,
                 exc |-> "none", mapped |-> {}]
        w    == IF through = "instance"
                THEN call_cache(w0, cache_strategy.capacity, a)
                ELSE strategy_cache(w0, cache_strategy.capacity, a)
    IN  [strategy |-> [cache_strategy EXCEPT !.od = w.od],
         objs |-> CollectAssets(w.objs, assets, w.od),
         call |-> [NoManagerCall EXCEPT
                     !.op = IF through = "instance" THEN "strategy.cache"
                            ELSE "LRUCachingStrategy.cache",
                     !.id = asset_id,
                     !.hit = asset_id \in OdIds(od),
                     !.exc = w.exc,
                     !.evicted = w.evicted,
                     !.unloads = w.unloads,
                     !.held0 = OdIds(od)]]

\* strategy.cache(asset)
cache_on_instance(asset_id, choice) ==
    /\ choice = "held" => asset_id \in OdIds(cache_strategy.od)
    /\ cache_strategy' = cache_call("instance", asset_id, choice).strategy
    /\ objects' = cache_call("instance", asset_id, choice).objs
    /\ lastCall' = cache_call("instance", asset_id, choice).call
    /\ UNCHANGED assets
    /\ UNCHANGED <<capacity, cache, nodes, lastOp, touchSeq, shadow, threads, manager>>

\* LRUCachingStrategy.cache(strategy, asset)
cache_method(asset_id, choice) ==
    /\ choice = "held" => asset_id \in OdIds(cache_strategy.od)
    /\ cache_strategy' = cache_call("class", asset_id, choice).strategy
    /\ objects' = cache_call("class", asset_id, choice).objs
    /\ lastCall' = cache_call("class", asset_id, choice).call
    /\ UNCHANGED assets
    /\ UNCHANGED <<capacity, cache, nodes, lastOp, touchSeq, shadow, threads, manager>>

NextStrategy ==
    \/ \E asset_id \in AssetIds, choice \in AssetChoices :
          cache_on_instance(asset_id, choice)
    \/ \E asset_id \in AssetIds, choice \in AssetChoices :
          cache_method(asset_id, choice)

SpecStrategy == InitStrategy /\ [][NextStrategy]_vars

====
